---------------------------- MODULE Spec2Model ----------------------------
(***************************************************************************)
(* Discrete-time CPU scheduler simulator: the Process state machine and    *)
(* the two policies FCFSScheduler (FCFS.py) and MLFQScheduler (MLFQ.py).   *)
(*                                                                         *)
(* Process ids are the Python ids 0..n-1; Python's None is the value None. *)
(* A Python exception (a failed assert, an IndexError, a TypeError) ends   *)
(* the run: the fields keep what was assigned before the raise and         *)
(* aborted records the exception.                                          *)
(*                                                                         *)
(* One simulate() call of a scheduler is a sequence of steps: the          *)
(* scheduling decision, one Process.simulate() per process in list order,  *)
(* and (MLFQ) the quantum bookkeeping of the two round-robin queues.       *)
(***************************************************************************)
EXTENDS Integers, Sequences, FiniteSets, TLC

\* ---------------------------------------------------------------- bounds
MaxProcs == 2      \* processes in a workload of the generic family
MaxLen == 3        \* entries of one process's interleaved sequence
MaxEntries == 6    \* entries of all sequences of a workload of the generic family
MaxIdleCalls == 2  \* simulate() calls made after the run has finished

\* -------------------------------------------------------------- constants
None == -1
NoErr == "none"
Quantum0 == 5
Quantum1 == 10

\* ------------------------------------------------------------------ inputs
SeqsUpTo(S, k) == UNION {[1..m -> S] : m \in 1..k}

\* burst and I/O durations of the generic family
Bursts == {1, 2}
IOs == {1, 3}

\* every interleaved sequence burst, I/O, burst, ... of 1..MaxLen durations
GenericSeqs ==
  {t \in SeqsUpTo(Bursts \cup IOs, MaxLen) :
     \A k \in 1..Len(t) : t[k] \in (IF k % 2 = 1 THEN Bursts ELSE IOs)}

\* sequences with bursts around and beyond the two quanta
LongSeqs == { <<3>>, <<4>>, <<7>>, <<12>>, <<16>>, <<1, 2, 6>>, <<5, 1, 15>>, <<6, 1, 1>> }

\* a workload is a function from ids 0..n-1 to interleaved sequences
WorkloadsOver(S, k) == UNION {[0..(m-1) -> S] : m \in 1..k}

FourProcs ==
  { [i \in 0..3 |-> <<(<<1, 1, 5>>), (<<1, 10, 5>>), (<<5>>), (<<1, 5, 4>>)>>[i+1]],
    [i \in 0..3 |-> <<(<<6>>), (<<1, 1, 5>>), (<<1, 9, 5>>), (<<4, 5, 4>>)>>[i+1]] }

\* number of entries of the sequences of ids 0..k-1
RECURSIVE Entries(_, _)
Entries(wl, k) == IF k = 0 THEN 0 ELSE Len(wl[k - 1]) + Entries(wl, k - 1)

GenericWorkloads ==
  {wl \in WorkloadsOver(GenericSeqs, MaxProcs) : Entries(wl, Cardinality(DOMAIN wl)) <= MaxEntries}

\* a long I/O ends while a process demoted twice is running at level 2
PreemptProcs ==
  { [i \in 0..1 |-> <<(<<18>>), (<<1, 11, 1>>)>>[i+1]] }

\* a burst that ends in the tick in which the quantum of level 0 (a last
\* burst of 5) or of level 1 (a burst of 15 followed by I/O) is used up
ExactProcs ==
  { [i \in 0..1 |-> <<(<<5>>), (<<7>>)>>[i+1]],
    [i \in 0..1 |-> <<(<<15, 1, 1>>), (<<3>>)>>[i+1]] }

Workloads ==
  GenericWorkloads \cup WorkloadsOver(LongSeqs, 3) \cup FourProcs \cup PreemptProcs \cup ExactProcs

Kinds == {"FCFS", "MLFQ"}

\* ------------------------------------------------------------------- state
VARIABLES
  kind,             \* which scheduler class owns the processes
  times,            \* the input: id -> interleaved sequence
  mode, burst_times, io_times, idx_burst, idx_io,        \* Process fields
  waiting_time, turnaround_time, response_time,          \* Process metrics
  cpu, total_time, cpu_time, done,                       \* scheduler fields
  queue,            \* FCFSScheduler.queue
  rr_queues, fcfs_queue, priorities,                     \* MLFQScheduler fields
  pc, i,            \* position inside simulate(): phase and loop index
  ret,              \* value returned by the last completed simulate()
  aborted,          \* exception that ended the run, NoErr if none
  idle_calls,       \* simulate() calls that returned at the first line
  run_ticks, io_ticks, ready_ticks,   \* history: ticks advanced in burst / io / ready mode
  arrivals, dispatches,    \* history: ids in ready-queue join / dispatch order
  streak,                  \* history: ticks of the current burst run at the current priority
  consec                   \* history: consecutive ticks on the CPU at the current priority

progVars == <<kind, times, mode, burst_times, io_times, idx_burst, idx_io,
              waiting_time, turnaround_time, response_time,
              cpu, total_time, cpu_time, done, queue, rr_queues, fcfs_queue, priorities>>
histVars == <<run_ticks, io_ticks, ready_ticks, arrivals, dispatches, streak, consec>>
vars == <<progVars, pc, i, ret, aborted, idle_calls, histVars>>

Procs == DOMAIN times
N == Cardinality(Procs)

\* the program state as one record, threaded through the operations
Cur ==
  [ kind |-> kind, plen |-> [p \in Procs |-> Len(times[p])],
    mode |-> mode, burst_times |-> burst_times, io_times |-> io_times,
    idx_burst |-> idx_burst, idx_io |-> idx_io,
    waiting_time |-> waiting_time, turnaround_time |-> turnaround_time,
    response_time |-> response_time,
    cpu |-> cpu, total_time |-> total_time, cpu_time |-> cpu_time, done |-> done,
    queue |-> queue, rr_queues |-> rr_queues, fcfs_queue |-> fcfs_queue,
    priorities |-> priorities, rv |-> TRUE, err |-> NoErr ]

Fail(s, e) == [s EXCEPT !.err = e]

\* times[::2] and times[1::2]
EvenSlice(t) == [k \in 1..((Len(t) + 1) \div 2) |-> t[2 * k - 1]]
OddSlice(t) == [k \in 1..(Len(t) \div 2) |-> t[2 * k]]

\* queue[:idx] + queue[idx + 1:]
RemoveAt(q, idx) ==
  IF idx >= Len(q) THEN q
  ELSE [k \in 1..(Len(q) - 1) |-> IF k <= idx THEN q[k] ELSE q[k + 1]]

\* ------------------------------------------------------- RRQueue (MLFQ.py)
RRQueue(members, quantum, isActive) ==
  [ quantum |-> quantum, queue |-> members, time |-> 0, idx |-> 0,
    isActive |-> isActive, lastRemoved |-> None,
    currentRunning |-> IF Len(members) > 0 /\ isActive THEN members[1] ELSE None ]

\* the while loop of nextReadyProcess on queue record q: the queue record
\* it leaves, and whether indexing the queue raised
RECURSIVE NextReadyLoop(_, _, _, _)
NextReadyLoop(q, md, idx, cnt) ==
  IF idx >= Len(q.queue) THEN [raised |-> TRUE, q |-> [q EXCEPT !.idx = idx]]
  ELSE IF md[q.queue[idx + 1]] # "ready"
  THEN LET idx2 == (idx + 1) % Len(q.queue) IN
       IF cnt + 1 = Len(q.queue)
       THEN [raised |-> FALSE,
             q |-> [q EXCEPT !.idx = idx2, !.isActive = FALSE, !.currentRunning = None]]
       ELSE NextReadyLoop(q, md, idx2, cnt + 1)
  ELSE [raised |-> FALSE,
        q |-> [q EXCEPT !.idx = idx, !.isActive = TRUE, !.currentRunning = q.queue[idx + 1]]]

RRQueue_nextReadyProcess(s, L) ==
  IF s.err # NoErr THEN s
  ELSE LET q == s.rr_queues[L] IN
    IF ~q.isActive THEN s
    ELSE IF Len(q.queue) = 0 THEN Fail(s, "AssertionError")
    ELSE LET r == NextReadyLoop(q, s.mode, q.idx, 0) IN
      IF r.raised THEN Fail([s EXCEPT !.rr_queues[L] = r.q], "IndexError")
      ELSE [s EXCEPT !.rr_queues[L] = r.q]

RRQueue_processIO(s, L, id) ==
  IF s.err # NoErr THEN s
  ELSE IF s.rr_queues[L].currentRunning # id THEN Fail(s, "AssertionError")
  ELSE RRQueue_nextReadyProcess([s EXCEPT !.rr_queues[L].time = 0], L)

\* remove the member at the cursor, re-clamp the cursor, go inactive when empty
RemoveCurrent(q) ==
  LET rest == RemoveAt(q.queue, q.idx)
      q1 == [q EXCEPT !.queue = rest, !.idx = IF q.idx = Len(rest) THEN 0 ELSE q.idx]
  IN IF Len(rest) = 0 THEN [q1 EXCEPT !.isActive = FALSE, !.currentRunning = None] ELSE q1

RRQueue_processDone(s, L, id) ==
  IF s.err # NoErr THEN s
  ELSE IF s.rr_queues[L].currentRunning # id THEN Fail(s, "AssertionError")
  ELSE RRQueue_nextReadyProcess(
         [s EXCEPT !.rr_queues[L] = RemoveCurrent([s.rr_queues[L] EXCEPT !.time = 0])], L)

RRQueue_makeInactive(s, L) ==
  IF s.err # NoErr THEN s
  ELSE [s EXCEPT !.rr_queues[L].currentRunning = None, !.rr_queues[L].isActive = FALSE]

\* rv is the value returned
RRQueue_makeActive(s, L) ==
  IF s.err # NoErr THEN s
  ELSE IF Len(s.rr_queues[L].queue) = 0 THEN [s EXCEPT !.rv = FALSE]
  ELSE IF s.rr_queues[L].isActive THEN [s EXCEPT !.rv = TRUE]
  ELSE LET s1 == RRQueue_nextReadyProcess([s EXCEPT !.rr_queues[L].isActive = TRUE], L)
       IN [s1 EXCEPT !.rv = s1.rr_queues[L].isActive]

\* RRQueue_addProcess entering the process twice
RRQueue_addProcess_twice(s, L, id) ==
  IF s.err # NoErr THEN s
  ELSE [s EXCEPT !.rr_queues[L].queue = Append(Append(@, id), id)]

RRQueue_addProcess(s, L, id) ==
  IF s.err # NoErr THEN s
  ELSE [s EXCEPT !.rr_queues[L].queue = Append(@, id)]

\* RRQueue_simulate letting the quantum expire one tick late
RRQueue_simulate_late(s, L) ==
  IF s.err # NoErr THEN s
  ELSE LET q == s.rr_queues[L] IN
    IF ~q.isActive THEN [s EXCEPT !.rv = TRUE]
    ELSE IF q.time + 1 = q.quantum + 1
    THEN IF q.idx >= Len(q.queue) THEN Fail([s EXCEPT !.rr_queues[L].time = 0], "IndexError")
         ELSE LET q1 == RemoveCurrent([q EXCEPT !.time = 0, !.lastRemoved = q.queue[q.idx + 1]])
                  s1 == RRQueue_nextReadyProcess([s EXCEPT !.rr_queues[L] = q1], L)
              IN [s1 EXCEPT !.rv = FALSE]
    ELSE [s EXCEPT !.rr_queues[L].time = q.time + 1, !.rv = TRUE]

\* rv is the value returned: FALSE when the quantum expired
RRQueue_simulate(s, L) ==
  IF s.err # NoErr THEN s
  ELSE LET q == s.rr_queues[L] IN
    IF ~q.isActive THEN [s EXCEPT !.rv = TRUE]
    ELSE IF q.time + 1 = q.quantum
    THEN IF q.idx >= Len(q.queue) THEN Fail([s EXCEPT !.rr_queues[L].time = 0], "IndexError")
         ELSE LET q1 == RemoveCurrent([q EXCEPT !.time = 0, !.lastRemoved = q.queue[q.idx + 1]])
                  s1 == RRQueue_nextReadyProcess([s EXCEPT !.rr_queues[L] = q1], L)
              IN [s1 EXCEPT !.rv = FALSE]
    ELSE [s EXCEPT !.rr_queues[L].time = q.time + 1, !.rv = TRUE]

\* --------------------------------------------------- scheduler callbacks
FCFS_processReady(s, id) ==
  IF s.err # NoErr THEN s ELSE [s EXCEPT !.queue = Append(@, id)]

FCFS_processDone(s, id) ==
  IF s.err # NoErr THEN s
  ELSE IF s.cpu # id THEN Fail(s, "AssertionError")
  ELSE [s EXCEPT !.done = @ + 1, !.cpu = None]

FCFS_processIO(s, id) ==
  IF s.err # NoErr THEN s
  ELSE IF s.cpu # id THEN Fail(s, "AssertionError")
  ELSE [s EXCEPT !.cpu = None]

\* MLFQ_processReady giving a process back from I/O the top priority
MLFQ_processReady_reset(s, id) ==
  IF s.err # NoErr THEN s
  ELSE IF s.priorities[id] = 2 THEN [s EXCEPT !.fcfs_queue = Append(@, id), !.priorities[id] = 0]
  ELSE [s EXCEPT !.priorities[id] = 0]

MLFQ_processReady(s, id) ==
  IF s.err # NoErr THEN s
  ELSE IF s.priorities[id] = 2 THEN [s EXCEPT !.fcfs_queue = Append(@, id)]
  ELSE s

MLFQ_processDone(s, id) ==
  IF s.err # NoErr THEN s
  ELSE IF s.cpu # id THEN Fail(s, "AssertionError")
  ELSE LET s1 == [s EXCEPT !.done = @ + 1, !.cpu = None] IN
    IF s.priorities[id] < 2 THEN RRQueue_processDone(s1, s.priorities[id], id) ELSE s1

\* MLFQ_processIO that does not tell the round-robin queue
MLFQ_processIO_quiet(s, id) ==
  IF s.err # NoErr THEN s
  ELSE IF s.cpu # id THEN Fail(s, "AssertionError")
  ELSE [s EXCEPT !.cpu = None]

MLFQ_processIO(s, id) ==
  IF s.err # NoErr THEN s
  ELSE IF s.cpu # id THEN Fail(s, "AssertionError")
  ELSE LET s1 == [s EXCEPT !.cpu = None] IN
    IF s.priorities[id] < 2 THEN RRQueue_processIO(s1, s.priorities[id], id) ELSE s1

\* self.scheduler.<callback>(self.id): the owner is the scheduler of kind s.kind
processReady(s, id) == IF s.kind = "FCFS" THEN FCFS_processReady(s, id) ELSE MLFQ_processReady(s, id)
processDone(s, id) == IF s.kind = "FCFS" THEN FCFS_processDone(s, id) ELSE MLFQ_processDone(s, id)
processIO(s, id) == IF s.kind = "FCFS" THEN FCFS_processIO(s, id) ELSE MLFQ_processIO(s, id)

\* ------------------------------------------- Process (FCFS.py and MLFQ.py)
\* Process_wait without the increment of waiting_time
Process_wait_forgot(s, p) == s

\* the 'ready' branch of Process.simulate
Process_wait(s, p) == [s EXCEPT !.waiting_time[p] = @ + 1]

\* Process_finished counting the tick in the turnaround time
Process_finished_tick(s, p) == [s EXCEPT !.turnaround_time[p] = @ + 1, !.rv = TRUE]

\* the first two lines of Process.simulate, taken by a process in mode 'done'
Process_finished(s, p) == [s EXCEPT !.rv = TRUE]

\* rv is the value returned
Process_simulate(s, p) ==
  IF s.err # NoErr THEN s
  ELSE IF s.mode[p] = "done" THEN Process_finished(s, p)
  ELSE LET s1 == [s EXCEPT !.turnaround_time[p] = @ + 1, !.rv = FALSE] IN
    CASE s.mode[p] = "burst" ->
           IF s.idx_burst[p] >= Len(s.burst_times[p]) THEN Fail(s1, "IndexError")
           ELSE LET left == s.burst_times[p][s.idx_burst[p] + 1] - 1
                    s2 == [s1 EXCEPT !.burst_times[p][s.idx_burst[p] + 1] = left]
                IN IF left = 0
                   THEN LET s3 == [s2 EXCEPT !.mode[p] = "io", !.idx_burst[p] = @ + 1] IN
                        IF s3.idx_burst[p] = (s.plen[p] \div 2) + 1
                        THEN [processDone([s3 EXCEPT !.mode[p] = "done"], p) EXCEPT !.rv = TRUE]
                        ELSE processIO(s3, p)
                   ELSE s2
      [] s.mode[p] = "io" ->
           IF s.idx_io[p] >= Len(s.io_times[p]) THEN Fail(s1, "IndexError")
           ELSE LET left == s.io_times[p][s.idx_io[p] + 1] - 1
                    s2 == [s1 EXCEPT !.io_times[p][s.idx_io[p] + 1] = left]
                IN IF left = 0
                   THEN processReady([s2 EXCEPT !.mode[p] = "ready", !.idx_io[p] = @ + 1], p)
                   ELSE s2
      [] s.mode[p] = "ready" -> Process_wait(s1, p)

\* Process_scheduleOnCPU recording the response time at every dispatch
Process_scheduleOnCPU_again(s, id) ==
  IF s.err # NoErr THEN s
  ELSE IF id = None THEN Fail(s, "TypeError")
  ELSE IF s.mode[id] # "ready" THEN Fail(s, "AssertionError")
  ELSE [s EXCEPT !.mode[id] = "burst", !.response_time[id] = s.turnaround_time[id]]

Process_scheduleOnCPU(s, id) ==
  IF s.err # NoErr THEN s
  ELSE IF id = None THEN Fail(s, "TypeError")
  ELSE IF s.mode[id] # "ready" THEN Fail(s, "AssertionError")
  ELSE [s EXCEPT !.mode[id] = "burst",
                 !.response_time[id] = IF @ = None THEN s.turnaround_time[id] ELSE @]

\* Process_descheduleFromCPU handing the process back one tick of its burst
Process_descheduleFromCPU_redo(s, id) ==
  IF s.err # NoErr THEN s
  ELSE IF s.mode[id] # "burst" THEN Fail(s, "AssertionError")
  ELSE [s EXCEPT !.mode[id] = "ready", !.burst_times[id][s.idx_burst[id] + 1] = @ + 1]

Process_descheduleFromCPU(s, id) ==
  IF s.err # NoErr THEN s
  ELSE IF s.mode[id] # "burst" THEN Fail(s, "AssertionError")
  ELSE [s EXCEPT !.mode[id] = "ready"]

\* -------------------------------------------------------------- schedulers
\* Process.__init__ for every id, then the scheduler's __init__
Constructed(k, wl) ==
  LET P == DOMAIN wl
      s0 == [ kind |-> k, plen |-> [p \in P |-> Len(wl[p])],
              mode |-> [p \in P |-> "ready"],
              burst_times |-> [p \in P |-> EvenSlice(wl[p])],
              io_times |-> [p \in P |-> OddSlice(wl[p])],
              idx_burst |-> [p \in P |-> 0], idx_io |-> [p \in P |-> 0],
              waiting_time |-> [p \in P |-> 0], turnaround_time |-> [p \in P |-> 0],
              response_time |-> [p \in P |-> None],
              cpu |-> 0, total_time |-> 0, cpu_time |-> 0, done |-> 0,
              queue |-> IF k = "FCFS" THEN [j \in 1..(Cardinality(P) - 1) |-> j] ELSE << >>,
              rr_queues |-> IF k = "MLFQ"
                            THEN [L \in 0..1 |->
                                   IF L = 0
                                   THEN RRQueue([j \in 1..Cardinality(P) |-> j - 1], Quantum0, TRUE)
                                   ELSE RRQueue(<< >>, Quantum1, FALSE)]
                            ELSE [L \in 0..1 |-> RRQueue(<< >>, 0, FALSE)],
              fcfs_queue |-> << >>,
              priorities |-> [p \in P |-> 0],
              rv |-> TRUE, err |-> NoErr ]
  IN Process_scheduleOnCPU(s0, 0)

\* FCFS_schedule counting every tick as a busy tick
FCFS_schedule_busy(s) ==
  LET s1 == IF s.cpu = None /\ Len(s.queue) > 0
            THEN Process_scheduleOnCPU([s EXCEPT !.cpu = Head(s.queue), !.queue = Tail(s.queue)],
                                       Head(s.queue))
            ELSE s
  IN IF s1.err # NoErr THEN s1 ELSE [s1 EXCEPT !.cpu_time = @ + 1, !.total_time = @ + 1]

\* FCFS_schedule taking the newest entry of the queue
FCFS_schedule_lifo(s) ==
  LET last == s.queue[Len(s.queue)]
      s1 == IF s.cpu = None /\ Len(s.queue) > 0
            THEN Process_scheduleOnCPU(
                   [s EXCEPT !.cpu = last, !.queue = SubSeq(s.queue, 1, Len(s.queue) - 1)], last)
            ELSE s
      s2 == IF s1.cpu # None THEN [s1 EXCEPT !.cpu_time = @ + 1] ELSE s1
  IN IF s1.err # NoErr THEN s1 ELSE [s2 EXCEPT !.total_time = @ + 1]

\* FCFS_schedule dispatching without the test "self.cpu == None"
FCFS_schedule_always(s) ==
  LET s1 == IF Len(s.queue) > 0
            THEN Process_scheduleOnCPU([s EXCEPT !.cpu = Head(s.queue), !.queue = Tail(s.queue)],
                                       Head(s.queue))
            ELSE s
      s2 == IF s1.cpu # None THEN [s1 EXCEPT !.cpu_time = @ + 1] ELSE s1
  IN IF s1.err # NoErr THEN s1 ELSE [s2 EXCEPT !.total_time = @ + 1]

\* FCFS_schedule counting the tick as busy from the CPU before the dispatch
FCFS_schedule_late(s) ==
  LET s1 == IF s.cpu = None /\ Len(s.queue) > 0
            THEN Process_scheduleOnCPU([s EXCEPT !.cpu = Head(s.queue), !.queue = Tail(s.queue)],
                                       Head(s.queue))
            ELSE s
      s2 == IF s.cpu # None THEN [s1 EXCEPT !.cpu_time = @ + 1] ELSE s1
  IN IF s1.err # NoErr THEN s1 ELSE [s2 EXCEPT !.total_time = @ + 1]

\* lines 129-136 of FCFSScheduler.simulate
FCFS_schedule(s) ==
  LET s1 == IF s.cpu = None /\ Len(s.queue) > 0
            THEN Process_scheduleOnCPU([s EXCEPT !.cpu = Head(s.queue), !.queue = Tail(s.queue)],
                                       Head(s.queue))
            ELSE s
      s2 == IF s1.cpu # None THEN [s1 EXCEPT !.cpu_time = @ + 1] ELSE s1
  IN IF s1.err # NoErr THEN s1 ELSE [s2 EXCEPT !.total_time = @ + 1]

\* MLFQ_level0 trying level 0 only when the CPU is free (no preemption)
MLFQ_level0_nopreempt(s) ==
  IF s.cpu = None
  THEN LET s1 == RRQueue_makeActive(s, 0) IN
       IF s1.err = NoErr /\ s1.rv
       THEN LET s3 == [s1 EXCEPT !.cpu = s1.rr_queues[0].currentRunning]
            IN Process_scheduleOnCPU(s3, s3.cpu)
       ELSE s1
  ELSE s

\* lines 285-296 of MLFQScheduler.simulate
MLFQ_level0(s) ==
  IF s.cpu = None \/ s.priorities[s.cpu] > 0
  THEN LET s1 == RRQueue_makeActive(s, 0) IN
       IF s1.err = NoErr /\ s1.rv
       THEN LET s2 == IF s1.cpu # None
                      THEN LET d == Process_descheduleFromCPU(s1, s1.cpu) IN
                           IF d.priorities[d.cpu] = 1
                           THEN RRQueue_makeInactive(d, 1)
                           ELSE IF d.err # NoErr THEN d
                                ELSE [d EXCEPT !.fcfs_queue = Append(@, d.cpu)]
                      ELSE s1
                s3 == IF s2.err # NoErr THEN s2
                      ELSE [s2 EXCEPT !.cpu = s2.rr_queues[0].currentRunning]
            IN Process_scheduleOnCPU(s3, s3.cpu)
       ELSE s1
  ELSE s

\* lines 300-306 of MLFQScheduler.simulate
MLFQ_level1(s) ==
  IF s.cpu = None \/ s.priorities[s.cpu] > 1
  THEN LET s1 == RRQueue_makeActive(s, 1) IN
       IF s1.err = NoErr /\ s1.rv
       THEN LET s2 == IF s1.cpu # None
                      THEN LET d == Process_descheduleFromCPU(s1, s1.cpu) IN
                           IF d.err # NoErr THEN d
                           ELSE [d EXCEPT !.fcfs_queue = Append(@, d.cpu)]
                      ELSE s1
                s3 == IF s2.err # NoErr THEN s2
                      ELSE [s2 EXCEPT !.cpu = s2.rr_queues[1].currentRunning]
            IN Process_scheduleOnCPU(s3, s3.cpu)
       ELSE s1
  ELSE s

\* MLFQ_level2 counting the tick as busy from the CPU before the FIFO dispatch
MLFQ_level2_late(s) ==
  LET s1 == IF s.cpu = None /\ Len(s.fcfs_queue) > 0
            THEN Process_scheduleOnCPU(
                   [s EXCEPT !.cpu = Head(s.fcfs_queue), !.fcfs_queue = Tail(s.fcfs_queue)],
                   Head(s.fcfs_queue))
            ELSE s
      s2 == IF s.cpu # None THEN [s1 EXCEPT !.cpu_time = @ + 1] ELSE s1
  IN IF s1.err # NoErr THEN s1 ELSE [s2 EXCEPT !.total_time = @ + 1]

\* lines 309-317 of MLFQScheduler.simulate
MLFQ_level2(s) ==
  LET s1 == IF s.cpu = None /\ Len(s.fcfs_queue) > 0
            THEN Process_scheduleOnCPU(
                   [s EXCEPT !.cpu = Head(s.fcfs_queue), !.fcfs_queue = Tail(s.fcfs_queue)],
                   Head(s.fcfs_queue))
            ELSE s
      s2 == IF s1.cpu # None THEN [s1 EXCEPT !.cpu_time = @ + 1] ELSE s1
  IN IF s1.err # NoErr THEN s1 ELSE [s2 EXCEPT !.total_time = @ + 1]

\* MLFQ_quantum handing a process evicted from level 0 straight to the FIFO queue
MLFQ_quantum_drop(s, L) ==
  LET s1 == RRQueue_simulate(s, L) IN
  IF s1.err # NoErr \/ s1.rv THEN s1
  ELSE LET removed == s1.rr_queues[L].lastRemoved
           s2 == [s1 EXCEPT !.priorities[removed] = 2]
           s3 == [s2 EXCEPT !.fcfs_queue = Append(@, removed)]
           s4 == Process_descheduleFromCPU(s3, removed)
       IN IF s4.err # NoErr THEN s4 ELSE [s4 EXCEPT !.cpu = None]

\* lines 323-329 (L = 0) and 331-337 (L = 1) of MLFQScheduler.simulate;
\* rv stays FALSE when the quantum of level L expired
MLFQ_quantum(s, L) ==
  LET s1 == RRQueue_simulate(s, L) IN
  IF s1.err # NoErr \/ s1.rv THEN s1
  ELSE LET removed == s1.rr_queues[L].lastRemoved
           s2 == [s1 EXCEPT !.priorities[removed] = @ + 1]
           s3 == IF L = 0 THEN RRQueue_addProcess(s2, 1, removed)
                 ELSE [s2 EXCEPT !.fcfs_queue = Append(@, removed)]
           s4 == Process_descheduleFromCPU(s3, removed)
       IN IF s4.err # NoErr THEN s4 ELSE [s4 EXCEPT !.cpu = None]

\* ------------------------------------------------------------------- steps
\* AllFinished satisfied as soon as one process has finished
AllFinished_any(s) == s.done >= 1

\* "self.done == self.n", the test at the first and the last line of simulate()
AllFinished(s) == s.done = Cardinality(DOMAIN s.mode)

Bool(b) == IF b THEN "True" ELSE "False"

Apply(s) ==
  /\ kind' = kind /\ times' = times
  /\ mode' = s.mode /\ burst_times' = s.burst_times /\ io_times' = s.io_times
  /\ idx_burst' = s.idx_burst /\ idx_io' = s.idx_io
  /\ waiting_time' = s.waiting_time /\ turnaround_time' = s.turnaround_time
  /\ response_time' = s.response_time
  /\ cpu' = s.cpu /\ total_time' = s.total_time /\ cpu_time' = s.cpu_time /\ done' = s.done
  /\ queue' = s.queue /\ rr_queues' = s.rr_queues /\ fcfs_queue' = s.fcfs_queue
  /\ priorities' = s.priorities

\* the step leaves state s; an exception ends the run, otherwise control moves on
Goto(s, nextpc, nexti, nextret) ==
  /\ Apply(s)
  /\ idle_calls' = idle_calls
  /\ IF s.err # NoErr
     THEN pc' = "aborted" /\ aborted' = s.err /\ i' = i /\ ret' = ret
     ELSE pc' = nextpc /\ aborted' = aborted /\ i' = nexti /\ ret' = nextret

Init ==
  \E k \in Kinds, wl \in Workloads :
    LET s == Constructed(k, wl) IN
    /\ kind = k /\ times = wl
    /\ mode = s.mode /\ burst_times = s.burst_times /\ io_times = s.io_times
    /\ idx_burst = s.idx_burst /\ idx_io = s.idx_io
    /\ waiting_time = s.waiting_time /\ turnaround_time = s.turnaround_time
    /\ response_time = s.response_time
    /\ cpu = s.cpu /\ total_time = s.total_time /\ cpu_time = s.cpu_time /\ done = s.done
    /\ queue = s.queue /\ rr_queues = s.rr_queues /\ fcfs_queue = s.fcfs_queue
    /\ priorities = s.priorities
    /\ pc = "call" /\ i = 0 /\ ret = "none" /\ aborted = NoErr /\ idle_calls = 0
    /\ run_ticks = [p \in DOMAIN wl |-> 0] /\ io_ticks = [p \in DOMAIN wl |-> 0]
    /\ ready_ticks = [p \in DOMAIN wl |-> 0]
    /\ arrivals = [j \in 1..Cardinality(DOMAIN wl) |-> j - 1] /\ dispatches = <<0>>
    /\ streak = [p \in DOMAIN wl |-> 0] /\ consec = [p \in DOMAIN wl |-> 0]

\* FCFSScheduler.simulate, lines 127-128
FCFS_Return ==
  /\ kind = "FCFS" /\ pc = "call" /\ AllFinished(Cur) /\ idle_calls < MaxIdleCalls
  /\ ret' = "True" /\ idle_calls' = idle_calls + 1
  /\ UNCHANGED <<progVars, pc, i, aborted, histVars>>

\* FCFSScheduler.simulate, lines 129-136
FCFS_Decide ==
  /\ kind = "FCFS" /\ pc = "call" /\ ~AllFinished(Cur)
  /\ LET s == FCFS_schedule(Cur) IN
     /\ Goto(s, "advance", 0, ret)
     /\ dispatches' = IF s.cpu # cpu THEN Append(dispatches, s.cpu) ELSE dispatches
  /\ UNCHANGED <<run_ticks, io_ticks, ready_ticks, arrivals, streak, consec>>

\* one iteration of "for p in self.processes: p.simulate()" (both schedulers);
\* after the last one FCFSScheduler.simulate returns, MLFQScheduler.simulate goes on
Advance(p) ==
  /\ pc = "advance" /\ i = p
  /\ LET s == Process_simulate(Cur, p)
         ran == mode[p] = "burst" /\ s.err = NoErr
     IN
     /\ IF p + 1 < N THEN Goto(s, "advance", p + 1, ret)
        ELSE IF kind = "FCFS" THEN Goto(s, "call", 0, Bool(AllFinished(s)))
        ELSE Goto(s, "rr0", 0, ret)
     /\ run_ticks' = IF ran THEN [run_ticks EXCEPT ![p] = @ + 1] ELSE run_ticks
     /\ io_ticks' = IF mode[p] = "io" /\ s.err = NoErr
                    THEN [io_ticks EXCEPT ![p] = @ + 1] ELSE io_ticks
     /\ ready_ticks' = IF mode[p] = "ready" /\ s.err = NoErr
                       THEN [ready_ticks EXCEPT ![p] = @ + 1] ELSE ready_ticks
     /\ arrivals' = IF mode[p] = "io" /\ s.mode[p] = "ready"
                    THEN Append(arrivals, p) ELSE arrivals
     /\ streak' = IF ran THEN [streak EXCEPT ![p] = @ + 1]
                  ELSE IF mode[p] = "io" /\ s.mode[p] = "ready" THEN [streak EXCEPT ![p] = 0]
                  ELSE streak
     /\ consec' = IF ran THEN [consec EXCEPT ![p] = @ + 1]
                  ELSE IF mode[p] # "done" THEN [consec EXCEPT ![p] = 0]
                  ELSE consec
  /\ UNCHANGED dispatches

\* MLFQScheduler.simulate, lines 280-281
MLFQ_Return ==
  /\ kind = "MLFQ" /\ pc = "call" /\ AllFinished(Cur) /\ idle_calls < MaxIdleCalls
  /\ ret' = "True" /\ idle_calls' = idle_calls + 1
  /\ UNCHANGED <<progVars, pc, i, aborted, histVars>>

\* MLFQScheduler.simulate, lines 285-296
MLFQ_Level0 ==
  /\ kind = "MLFQ" /\ pc = "call" /\ ~AllFinished(Cur)
  /\ Goto(MLFQ_level0(Cur), "level1", 0, ret)
  /\ UNCHANGED histVars

\* MLFQScheduler.simulate, lines 300-306
MLFQ_Level1 ==
  /\ pc = "level1"
  /\ Goto(MLFQ_level1(Cur), "level2", 0, ret)
  /\ UNCHANGED histVars

\* MLFQScheduler.simulate, lines 309-317
MLFQ_Level2 ==
  /\ pc = "level2"
  /\ Goto(MLFQ_level2(Cur), "advance", 0, ret)
  /\ UNCHANGED histVars

\* the histories of a process restart when it is handed to the next level
Demoted(h, s) == [p \in Procs |-> IF s.priorities[p] # priorities[p] THEN 0 ELSE h[p]]

\* MLFQScheduler.simulate, lines 323-329
MLFQ_Quantum0 ==
  /\ pc = "rr0"
  /\ LET s == MLFQ_quantum(Cur, 0) IN
     /\ Goto(s, "rr1", 0, ret)
     /\ streak' = Demoted(streak, s) /\ consec' = Demoted(consec, s)
  /\ UNCHANGED <<run_ticks, io_ticks, ready_ticks, arrivals, dispatches>>

\* MLFQScheduler.simulate, lines 331-339
MLFQ_Quantum1 ==
  /\ pc = "rr1"
  /\ LET s == MLFQ_quantum(Cur, 1) IN
     /\ Goto(s, "call", 0, Bool(AllFinished(s)))
     /\ streak' = Demoted(streak, s) /\ consec' = Demoted(consec, s)
  /\ UNCHANGED <<run_ticks, io_ticks, ready_ticks, arrivals, dispatches>>

Next ==
  \/ FCFS_Return
  \/ FCFS_Decide
  \/ \E p \in Procs : Advance(p)
  \/ MLFQ_Return
  \/ MLFQ_Level0
  \/ MLFQ_Level1
  \/ MLFQ_Level2
  \/ MLFQ_Quantum0
  \/ MLFQ_Quantum1

Spec == Init /\ [][Next]_vars

\* main's loop "while not scheduler.simulate(): pass" keeps calling
FairSpec == Spec /\ WF_vars(Next)

AllDone == \A p \in Procs : mode[p] = "done"
OddWorkload == \A p \in Procs : Len(times[p]) % 2 = 1

\* the runs of one scheduler over the workloads of odd-length sequences, with
\* main's loop calling simulate() again and again
InitFCFS == Init /\ kind = "FCFS" /\ OddWorkload
NextFCFS ==
  \/ FCFS_Return
  \/ FCFS_Decide
  \/ \E p \in Procs : Advance(p)
FairFCFS == InitFCFS /\ [][NextFCFS]_vars /\ WF_vars(NextFCFS)

\* (for MLFQ: the generic family and the four-process workloads)
InitMLFQ ==
  /\ Init /\ kind = "MLFQ" /\ OddWorkload
  /\ times \in GenericWorkloads \cup FourProcs
NextMLFQ ==
  \/ \E p \in Procs : Advance(p)
  \/ MLFQ_Return
  \/ MLFQ_Level0
  \/ MLFQ_Level1
  \/ MLFQ_Level2
  \/ MLFQ_Quantum0
  \/ MLFQ_Quantum1
FairMLFQ == InitMLFQ /\ [][NextMLFQ]_vars /\ WF_vars(NextMLFQ)

\* the MLFQ runs of a single process with bursts around and beyond the quanta
InitSingle == Init /\ kind = "MLFQ" /\ times \in WorkloadsOver(LongSeqs, 1)
FairSingle == InitSingle /\ [][NextMLFQ]_vars /\ WF_vars(NextMLFQ)
\* ================================================================== claims
Running == {p \in Procs : mode[p] = "burst"}
AfterDecision == pc = "advance" /\ i = 0

\* C1: under both schedulers, in every reachable state, the states inside a
\* tick included, at most one Process has mode 'burst'.
C1_AtMostOneRunning == Cardinality(Running) <= 1

\* a level-0 process runs inside a tick while another process waits ready
C1_Witness ==
  /\ kind = "MLFQ" /\ pc = "advance" /\ total_time > 1
  /\ \E p, q \in Procs : p # q /\ mode[p] = "burst" /\ mode[q] = "ready"

\* some process of priority L is ready or running
Runnable(L) == \E p \in Procs : priorities[p] = L /\ mode[p] \in {"ready", "burst"}

\* C2: MLFQ strict priority. Right after the scheduling decision of a tick,
\* before any Process advances: when a priority-0 process is ready or running
\* the CPU holds a priority-0 process; otherwise, when a priority-1 process is
\* ready or running the CPU holds a priority-1 process; and the only process
\* that executes a burst tick is the one holding the CPU.
C2_StrictPriority ==
  (kind = "MLFQ" /\ AfterDecision) =>
    /\ Running = (IF cpu = None THEN {} ELSE {cpu})
    /\ Runnable(0) => (cpu # None /\ priorities[cpu] = 0)
    /\ (~Runnable(0) /\ Runnable(1)) => (cpu # None /\ priorities[cpu] = 1)

\* a level-0 process holds the CPU while a demoted process waits ready
C2_Witness ==
  /\ kind = "MLFQ" /\ AfterDecision /\ cpu # None /\ priorities[cpu] = 0
  /\ \E q \in Procs : priorities[q] >= 1 /\ mode[q] = "ready"

\* the quantum of the round-robin queue of level L expires in this step and evicts p
ExpiryEvicts(L, p) ==
  /\ L \in 0..1
  /\ pc = (IF L = 0 THEN "rr0" ELSE "rr1")
  /\ rr_queues[L].isActive /\ rr_queues[L].time + 1 = rr_queues[L].quantum
  /\ rr_queues'[L].lastRemoved = p

\* C3: MLFQ monotonic demotion. Every process starts with priority 0; a
\* priority stays in {0,1,2}; in any step it either stays or grows by one, and
\* it grows only in the quantum-expiry step of the round-robin queue of the
\* process's level; the steps in which processes advance (go to I/O, return
\* from I/O) leave every priority unchanged.
C3_MonotonicDemotion ==
  /\ (kind = "MLFQ" => \A p \in Procs : priorities[p] = 0)
  /\ [](kind = "MLFQ" => \A p \in Procs : priorities[p] \in 0..2)
  /\ [][kind = "MLFQ" =>
         /\ \A p \in Procs :
              \/ priorities'[p] = priorities[p]
              \/ priorities'[p] = priorities[p] + 1 /\ ExpiryEvicts(priorities[p], p)
         /\ pc = "advance" => priorities' = priorities]_vars

\* a process demoted to level 1 has gone to I/O and come back, still at level 1
C3_Witness ==
  /\ kind = "MLFQ"
  /\ \E p \in Procs : priorities[p] = 1 /\ idx_io[p] >= 1 /\ mode[p] = "ready"
                      /\ Len(times[p]) = 3 /\ times[p][1] > Quantum0
  /\ \E p \in Procs : priorities[p] = 2

\* simulate() has just returned
Returned == pc = "call" /\ ret # "none"

\* C4: FCFS termination. For a workload of odd-length sequences, repeated
\* FCFSScheduler.simulate() calls reach a state in which every Process is
\* 'done', and a call returns True exactly when every Process is 'done'.
C4_FCFSTerminates ==
  /\ (kind = "FCFS" /\ OddWorkload) => <>AllDone
  /\ []((kind = "FCFS" /\ OddWorkload /\ Returned) => (ret = "True" <=> AllDone))

\* a two-process FCFS run with I/O phases has finished and returned True
C4_Witness ==
  /\ kind = "FCFS" /\ OddWorkload /\ N >= 2 /\ AllDone /\ Returned /\ ret = "True"
  /\ \E p \in Procs : idx_io[p] >= 1

\* C5: MLFQ termination. For a workload of odd-length sequences and any
\* number of processes, repeated MLFQScheduler.simulate() calls reach a state
\* in which every Process is 'done', the run never aborts, and a call returns
\* True exactly when every Process is 'done'.
C5_MLFQTerminates ==
  /\ (kind = "MLFQ" /\ OddWorkload) => <>AllDone
  /\ []((kind = "MLFQ" /\ OddWorkload) => aborted = NoErr)
  /\ []((kind = "MLFQ" /\ OddWorkload /\ Returned) => (ret = "True" <=> AllDone))

\* C6: Process completion for any input length. When the current burst of a
\* running process reaches zero the process becomes 'done' exactly when its
\* burst cursor has passed the last burst, and waits for I/O otherwise; a
\* process is never running with its cursor past the end of its bursts, and
\* the run is never ended by an exception of Process.simulate.
C6_Completion ==
  /\ [][\A p \in Procs :
          (pc = "advance" /\ i = p /\ mode[p] = "burst" /\ mode'[p] # "burst") =>
             (mode'[p] = "done" <=> idx_burst'[p] = Len(burst_times[p]))]_vars
  /\ [](\A p \in Procs : mode[p] = "burst" => idx_burst[p] < Len(burst_times[p]))
  /\ [](aborted # "IndexError")

\* C7: metric accounting. Under both schedulers, for every Process, in every
\* state of a run that was not ended by an exception (so at every tick boundary
\* up to and including completion): waiting_time is the number of ticks the
\* process advanced in mode ready, and turnaround_time is waiting_time plus
\* the ticks it advanced running plus the ticks it advanced waiting for I/O.
C7_Accounting ==
  pc # "aborted" =>
    \A p \in Procs :
      /\ waiting_time[p] = ready_ticks[p]
      /\ turnaround_time[p] = waiting_time[p] + run_ticks[p] + io_ticks[p]

\* a finished process that has waited, run and done I/O
C7_Witness ==
  /\ pc = "call"
  /\ \E p \in Procs : mode[p] = "done" /\ ready_ticks[p] > 0 /\ run_ticks[p] > 0 /\ io_ticks[p] > 0

\* the step that closes the scheduling decision of a tick
ClosesDecision == pc # "advance" /\ pc' = "advance"

\* C8: work conservation. Under both schedulers total_time grows by exactly
\* one per tick, at the scheduling decision, and cpu_time grows by one in that
\* step iff a process holds the CPU after it (both counters change nowhere
\* else); the CPU is left idle only if no Process is in mode ready.
C8_WorkConservation ==
  /\ [][/\ ClosesDecision =>
             /\ total_time' = total_time + 1
             /\ cpu_time' = cpu_time + (IF cpu' # None THEN 1 ELSE 0)
        /\ (~ClosesDecision /\ pc' # "aborted") =>
             (total_time' = total_time /\ cpu_time' = cpu_time)]_vars
  /\ []((AfterDecision /\ cpu = None) => \A p \in Procs : mode[p] # "ready")

\* an idle tick: the decision left the CPU free while processes wait for I/O
C8_Witness ==
  /\ AfterDecision /\ cpu = None /\ cpu_time < total_time
  /\ \E p \in Procs : mode[p] = "io"

\* C9: FCFS dispatch order. The processes are dispatched in exactly the order
\* in which they joined the ready queue (initially by index, then by tick of
\* I/O completion, ties by position in the process list): the dispatches are
\* a prefix of the arrivals and the queue holds the arrivals not yet dispatched.
C9_DispatchOrder ==
  kind = "FCFS" =>
    /\ Len(dispatches) <= Len(arrivals)
    /\ dispatches = SubSeq(arrivals, 1, Len(dispatches))
    /\ queue = SubSeq(arrivals, Len(dispatches) + 1, Len(arrivals))

\* P1 came back from I/O before P0 and was dispatched before it
C9_Witness ==
  /\ kind = "FCFS" /\ N = 2 /\ Len(dispatches) >= 4
  /\ SubSeq(dispatches, 1, 4) = <<0, 1, 1, 0>>

\* C10: quantum upper bound. In MLFQ no process executes more than 5
\* consecutive ticks at priority 0 nor more than 10 ticks of one burst at
\* priority 1: a process that has reached the quantum of its level no longer
\* runs at that level at the next tick boundary.
C10_QuantumBound ==
  kind = "MLFQ" =>
    \A p \in Procs :
      /\ priorities[p] = 0 => consec[p] <= Quantum0
      /\ priorities[p] = 1 => streak[p] <= Quantum1
      /\ (pc = "call" /\ mode[p] = "burst" /\ priorities[p] = 0) => consec[p] < Quantum0
      /\ (pc = "call" /\ mode[p] = "burst" /\ priorities[p] = 1) => streak[p] < Quantum1

\* a process has just used up the quantum of level 1 and is about to be evicted
C10_Witness ==
  /\ kind = "MLFQ" /\ pc = "rr1"
  /\ \E p \in Procs : priorities[p] = 1 /\ streak[p] = Quantum1 /\ mode[p] = "burst"

\* the scheduling decision takes the CPU from the running process p
Preempts(p) ==
  /\ kind = "MLFQ" /\ pc \in {"call", "level1"}
  /\ cpu = p /\ mode[p] = "burst" /\ mode'[p] # "burst"

\* the fields of p that record its progress and its metrics
Progress(p) ==
  <<burst_times[p], io_times[p], idx_burst[p], idx_io[p], priorities[p],
    waiting_time[p], turnaround_time[p], response_time[p]>>

\* number of positions of sequence q that hold p
Count(q, p) == Cardinality({k \in 1..Len(q) : q[k] = p})

\* C11: preemption preserves progress. In MLFQ, the step in which a
\* higher-priority queue takes the CPU from the running process changes only
\* that process's mode (running to ready): remaining burst, cursors,
\* priority, waiting_time, turnaround_time and response_time stay, and the
\* process is kept in the queue of its level; while a process is ready no step
\* changes its remaining burst or its cursors, so that it continues the same
\* burst with the same remaining duration when it is scheduled next.
C11_PreemptionKeepsProgress ==
  /\ [][\A p \in Procs : Preempts(p) =>
          /\ mode'[p] = "ready" /\ Progress(p)' = Progress(p)
          /\ priorities[p] \in 1..2
          /\ priorities[p] = 1 => Count(rr_queues'[1].queue, p) = 1
          /\ priorities[p] = 2 => Count(fcfs_queue', p) = 1]_vars
  /\ [][\A p \in Procs : mode[p] = "ready" =>
          /\ burst_times'[p] = burst_times[p] /\ io_times'[p] = io_times[p]
          /\ idx_burst'[p] = idx_burst[p] /\ idx_io'[p] = idx_io[p]]_vars

\* a level-2 process that was preempted after running at level 2 is on the
\* CPU again and has run since, a finished level-0 process having preempted it
C11_Witness ==
  /\ kind = "MLFQ"
  /\ \E p \in Procs : /\ priorities[p] = 2 /\ mode[p] = "burst"
                       /\ consec[p] >= 1 /\ streak[p] > consec[p]
  /\ \E q \in Procs : priorities[q] = 0 /\ mode[q] = "done" /\ idx_io[q] >= 1

\* the step puts p on the CPU (a scheduleOnCPU call that passed its assert)
Schedules(p) == mode[p] # "burst" /\ mode'[p] = "burst"

\* C12: response time. Under both schedulers a Process's response_time is
\* unset (None) as long as the process has never been put on the CPU; the
\* step that schedules it for the first time sets it to the turnaround_time
\* held at that moment; no other step (later scheduling, preemption, ticks)
\* changes it; and once set, 0 <= response_time <= turnaround_time.
C12_ResponseTime ==
  /\ \A p \in Procs : response_time[p] = (IF p = 0 THEN 0 ELSE None)
  /\ [](\A p \in Procs :
         /\ response_time[p] = None =>
              (mode[p] = "ready" /\ run_ticks[p] = 0 /\ idx_burst[p] = 0)
         /\ response_time[p] # None =>
              (0 <= response_time[p] /\ response_time[p] <= turnaround_time[p]))
  /\ [][\A p \in Procs :
          response_time'[p] =
            IF Schedules(p) /\ response_time[p] = None THEN turnaround_time[p]
            ELSE response_time[p]]_vars

\* a process that first waited is on the CPU for a later burst, its response
\* time still the one of its first dispatch
C12_Witness ==
  \E p \in Procs :
    /\ mode[p] = "burst" /\ idx_burst[p] >= 1
    /\ response_time[p] > 0 /\ response_time[p] < waiting_time[p]

\* the run of FCFSScheduler over P0 = [4], P1 = [3]
FCFS_Example == kind = "FCFS" /\ times = [p \in 0..1 |-> <<(<<4>>), (<<3>>)>>[p + 1]]

\* the metrics at the end of that run
FCFS_ExampleEnd ==
  /\ AllDone /\ total_time = 7 /\ cpu_time = 7
  /\ turnaround_time = [p \in 0..1 |-> <<4, 7>>[p + 1]]
  /\ waiting_time = [p \in 0..1 |-> <<0, 4>>[p + 1]]
  /\ response_time = [p \in 0..1 |-> <<0, 4>>[p + 1]]

\* C13: FCFS worked example. The run of FCFSScheduler over P0 = [4],
\* P1 = [3] ends, and when it has ended P0 has turnaround 4, waiting 0,
\* response 0, P1 has turnaround 7, waiting 4, response 4, total_time is 7
\* and cpu_time is 7; P1 gets the CPU when P0 finishes, at the fifth tick.
C13_FCFSExample ==
  /\ FCFS_Example => <>[]FCFS_ExampleEnd
  /\ []((FCFS_Example /\ AllDone) => FCFS_ExampleEnd)
  /\ []((FCFS_Example /\ mode[1] = "burst") => (mode[0] = "done" /\ total_time >= 5))

\* the example run has ended and simulate() has returned True
C13_Witness == FCFS_Example /\ AllDone /\ Returned /\ ret = "True" /\ dispatches = <<0, 1>>

\* the run of MLFQScheduler over a single process with one burst of 12
MLFQ_Example == kind = "MLFQ" /\ times = [p \in 0..0 |-> <<12>>]

\* the metrics at the end of that run
MLFQ_ExampleEnd ==
  /\ AllDone /\ total_time = 12 /\ cpu_time = 12 /\ priorities[0] = 1
  /\ turnaround_time[0] = 12 /\ waiting_time[0] = 0

\* C14: MLFQ quantum-expiry worked example. In the run of MLFQScheduler
\* over a single process with one burst of 12 the process has priority 0
\* during its first 5 ticks, is demoted to priority 1 exactly once, in the
\* level-0 quantum bookkeeping of tick 5, never reaches priority 2, the CPU
\* is never idle, and the run ends after 12 ticks with turnaround_time 12
\* and waiting_time 0.
C14_MLFQExample ==
  /\ MLFQ_Example => <>[]MLFQ_ExampleEnd
  /\ [](MLFQ_Example =>
         /\ priorities[0] = (IF run_ticks[0] < 5 \/ (run_ticks[0] = 5 /\ pc = "rr0")
                              THEN 0 ELSE 1)
         /\ AfterDecision => cpu = 0
         /\ pc = "call" => cpu_time = total_time
         /\ waiting_time[0] = 0 /\ aborted = NoErr
         /\ AllDone => MLFQ_ExampleEnd)
  /\ [][(MLFQ_Example /\ priorities' # priorities) =>
          (pc = "rr0" /\ total_time = 5 /\ priorities[0] = 0 /\ priorities'[0] = 1)]_vars

\* the example run has ended, the process having finished at level 1
C14_Witness ==
  /\ MLFQ_Example /\ AllDone /\ Returned /\ ret = "True"
  /\ priorities[0] = 1 /\ rr_queues[1].queue = << >>

\* C15: a tick on a finished process has no effect. Process.simulate() on a
\* Process in mode 'done' returns True and leaves every field of the process
\* (mode, waiting_time, turnaround_time, response_time, cursors, remaining
\* durations) and every field of the scheduler unchanged, so that it issues
\* no callback, and so does any number of further calls; a call on a process
\* that is not done, and does not finish in it, returns False.
C15_DoneIsFixed ==
  /\ [](\A p \in Procs :
         LET r == Process_simulate([Cur EXCEPT !.rv = FALSE], p) IN
         IF mode[p] = "done"
         THEN r = [Cur EXCEPT !.rv = TRUE] /\ Process_simulate(r, p) = r
         ELSE (r.err = NoErr /\ r.mode[p] # "done") => r.rv = FALSE)
  /\ [][\A p \in Procs : (pc = "advance" /\ i = p /\ mode[p] = "done") =>
          (progVars' = progVars /\ histVars' = histVars /\ aborted' = aborted)]_vars

\* the loop over the processes has just advanced process 0, which finished at
\* least two ticks ago, in a run that has done I/O
C15_Witness ==
  /\ pc = "advance" /\ i = 1 /\ mode[0] = "done"
  /\ turnaround_time[0] + 2 <= total_time /\ idx_io[0] >= 1

\* C16: MLFQ internal-consistency faults never fire. For every workload of
\* odd-length positive sequences, whatever the number of processes, no assert
\* of MLFQ.py fails in any reachable state: scheduleOnCPU finds its process
\* ready, descheduleFromCPU finds it running, processDone and processIO get
\* the id of the CPU, the round-robin queue's processDone and processIO get
\* its currentRunning, and nextReadyProcess never runs on an empty queue.
C16_NoAssertFails == (kind = "MLFQ" /\ OddWorkload) => aborted # "AssertionError"

\* the quantum of level L
Quantum(L) == IF L = 0 THEN Quantum0 ELSE Quantum1

\* the quantum bookkeeping of level L counts the tick: its time grows by one
CountsTick(L) ==
  /\ pc = (IF L = 0 THEN "rr0" ELSE "rr1")
  /\ rr_queues[L].isActive /\ rr_queues'[L].time = rr_queues[L].time + 1

\* C17: demotion only after a full quantum. In MLFQ, whenever the quantum
\* of the round-robin queue of level L (0 or 1) expires, the evicted process
\* is the level-L process that held the CPU during that tick and it has
\* executed exactly quantum(L) ticks (5 at level 0, 10 at level 1) of its
\* current burst at that level; and the queue's time counter counts a tick
\* only when the queue's current member ran in it.
C17_FullQuantum ==
  [][kind = "MLFQ" =>
       \A L \in 0..1 :
         /\ \A p \in Procs : ExpiryEvicts(L, p) =>
               /\ cpu = p /\ mode[p] = "burst" /\ priorities[p] = L
               /\ streak[p] = Quantum(L)
         /\ CountsTick(L) =>
               /\ cpu # None /\ rr_queues[L].currentRunning = cpu
               /\ consec[cpu] >= 1]_vars

\* the members of the round-robin queue of level L
Members(L) == {rr_queues[L].queue[k] : k \in 1..Len(rr_queues[L].queue)}

\* the active flag of level L agrees with the CPU
ActiveIffHoldsCPU(L) ==
  /\ rr_queues[L].isActive <=> (cpu # None /\ cpu \in Members(L))
  /\ rr_queues[L].isActive => rr_queues[L].currentRunning = cpu
  /\ ~rr_queues[L].isActive => rr_queues[L].currentRunning = None

\* C18: round-robin active flag. In MLFQ, right after the scheduling
\* decision of every tick and at every tick boundary, a round-robin queue's
\* isActive is True exactly when the process holding the CPU is a member of
\* that queue, and then its currentRunning is the scheduler's cpu; when
\* isActive is False its currentRunning is None. In particular the level-1
\* queue is not active while a level-0 process holds the CPU.
C18_ActiveFlag ==
  (kind = "MLFQ" /\ OddWorkload /\ (AfterDecision \/ pc = "call")) =>
    /\ ActiveIffHoldsCPU(0) /\ ActiveIffHoldsCPU(1)
    /\ (cpu # None /\ priorities[cpu] = 0) => ~rr_queues[1].isActive

\* C19: queue membership. At every tick boundary, in MLFQ a process that is
\* not done and has priority L in {0,1} appears exactly once in rr_queues[L]
\* and in no other structure, a process of priority 2 appears exactly once in
\* the FIFO queue if its mode is ready and not at all otherwise, and a done
\* process appears in no queue; in FCFS the FIFO queue holds exactly the
\* processes in mode ready, each exactly once.
C19_Membership ==
  pc = "call" =>
    \A p \in Procs :
      IF kind = "FCFS"
      THEN Count(queue, p) = (IF mode[p] = "ready" THEN 1 ELSE 0)
      ELSE /\ \A L \in 0..1 :
                Count(rr_queues[L].queue, p) =
                  (IF mode[p] # "done" /\ priorities[p] = L THEN 1 ELSE 0)
           /\ Count(fcfs_queue, p) =
                (IF mode[p] = "ready" /\ priorities[p] = 2 THEN 1 ELSE 0)

\* a tick boundary of MLFQ with a ready process in the FIFO queue, a process
\* waiting for I/O at level 1, and a finished process
C19_Witness ==
  /\ kind = "MLFQ" /\ pc = "call" /\ total_time > 0
  /\ \E p \in Procs : priorities[p] = 2 /\ mode[p] = "ready"
  /\ \E p \in Procs : priorities[p] = 1 /\ mode[p] = "io"
  /\ \E p \in Procs : mode[p] = "done"

\* the burst of p ends in this step, in which its run at its level reaches the quantum
CompletesAtQuantum(p) ==
  /\ pc = "advance" /\ i = p /\ mode[p] = "burst" /\ mode'[p] # "burst"
  /\ priorities[p] \in 0..1 /\ streak'[p] = Quantum(priorities[p])

\* the burst of p has ended earlier in the current tick, in which its run at
\* its level reached the quantum
CompletedAtQuantum(p) ==
  /\ pc \in {"rr0", "rr1"} \/ (pc = "advance" /\ i > p)
  /\ priorities[p] \in 0..1 /\ streak[p] = Quantum(priorities[p])
  /\ \/ mode[p] = "io" /\ consec[p] >= 1
     \/ mode[p] = "done" /\ turnaround_time[p] = total_time

\* C20: burst completion takes precedence over quantum expiry within a
\* tick. In MLFQ, when the burst of the running process reaches zero in the
\* very tick in which its run at level 0 (resp. 1) reaches 5 (resp. 10)
\* ticks, the process goes to I/O or becomes done with its priority
\* unchanged, stays in its round-robin queue unless it is done, and the
\* quantum bookkeeping of that tick neither evicts nor demotes it.
C20_CompletionFirst ==
  [][kind = "MLFQ" =>
       \A p \in Procs :
         /\ CompletesAtQuantum(p) =>
               /\ mode'[p] \in {"io", "done"} /\ priorities'[p] = priorities[p]
               /\ Count(rr_queues'[priorities[p]].queue, p) = (IF mode'[p] = "done" THEN 0 ELSE 1)
         /\ CompletedAtQuantum(p) =>
               /\ mode'[p] = mode[p] /\ priorities'[p] = priorities[p]
               /\ \A L \in 0..1 : /\ ~ExpiryEvicts(L, p)
                                  /\ Count(rr_queues'[L].queue, p) = Count(rr_queues[L].queue, p)
               /\ Count(fcfs_queue', p) = 0]_vars

\* the quantum bookkeeping of level 0 has run in the tick in which a process
\* ended a burst of 5 at level 0 and went to I/O, another process being ready
C20_Witness ==
  /\ kind = "MLFQ" /\ pc = "rr1"
  /\ \E p \in Procs : /\ CompletedAtQuantum(p) /\ priorities[p] = 0 /\ mode[p] = "io"
                       /\ Count(rr_queues[0].queue, p) = 1
  /\ \E q \in Procs : mode[q] = "ready" /\ priorities[q] = 0

\* the sum of the entries of sequence t
RECURSIVE SumSeq(_)
SumSeq(t) == IF Len(t) = 0 THEN 0 ELSE Head(t) + SumSeq(Tail(t))

\* the sum of the burst durations of the processes 0..k-1 of the input
RECURSIVE SumBursts(_)
SumBursts(k) == IF k = 0 THEN 0 ELSE SumSeq(EvenSlice(times[k - 1])) + SumBursts(k - 1)

\* the largest turnaround_time
MaxTurnaround ==
  CHOOSE m \in {turnaround_time[p] : p \in Procs} : \A p \in Procs : turnaround_time[p] <= m

\* C21: final accounting. Under both schedulers, for every workload of
\* odd-length positive sequences, once every process is done cpu_time is the
\* sum of all burst durations of the workload, total_time is the largest
\* turnaround_time, and the done counter is the number of processes; and
\* cpu_time <= total_time in every reachable state.
C21_FinalAccounting ==
  /\ cpu_time <= total_time
  /\ (OddWorkload /\ AllDone) =>
       /\ cpu_time = SumBursts(N)
       /\ total_time = MaxTurnaround
       /\ done = N

\* an MLFQ run that left the CPU idle for some ticks and used the FIFO queue
\* has ended
C21_Witness ==
  /\ kind = "MLFQ" /\ OddWorkload /\ AllDone /\ Returned /\ N >= 2
  /\ cpu_time < total_time
  /\ \E p \in Procs : priorities[p] = 2

=============================================================================
